---- MODULE Spec2Model ----
(***************************************************************************)
(* The education-consultancy application: leads, language-class batches    *)
(* and application students, edited through modal forms that write         *)
(* directly to the tables of a remote database and to an object store.     *)
(*                                                                         *)
(* The remote service is not part of the repository.  A request is made    *)
(* by a client whose auth.getUser() result is an input of the action       *)
(* (a user id, or NoUser); the service refuses every request of a client   *)
(* that is not authenticated (the row-level-security policies of the       *)
(* migration) and may refuse any other request ("error": network,          *)
(* constraint, missing table).  An accepted write is applied as sent, with *)
(* the column defaults of the migration.                                   *)
(***************************************************************************)
EXTENDS Integers, Sequences, FiniteSets, TLC

VARIABLES
    leads,          \* table leads: sequence of rows, the id is the index
    students,       \* table application_students: sequence of rows
    universities,   \* table universities: set of rows with an id
    uniCount,       \* number of university ids handed out
    documents,      \* table documents: set of rows with an id
    docCount,       \* number of document ids handed out
    storage,        \* bucket 'documents': set of object paths
    batches,        \* table language_batches: sequence of rows
    batchStudents,  \* table batch_students: sequence of rows
    timeline,       \* table timeline_events: sequence of rows
    now,            \* Date.now()
    localStudents,  \* Applications page: useState students (id -> status)
    pending,        \* Applications page: requests awaiting their answer
    last            \* the last handler run: its toasts and the writes it sent

vars == <<leads, students, universities, uniCount, documents, docCount, storage,
          batches, batchStudents, timeline, now, localStudents, pending, last>>

----------------------------------------------------------------------------
(* Bounds of the model *)

MaxRows == 2     \* rows inserted, the documents apart
MaxDocs == 1     \* documents there may be when a handler that uploads starts
MaxEvents == 2   \* timeline events there may be when a handler that records starts
MaxFiles == 2    \* files of one FileList
MaxTime == 0     \* the last value of Date.now()

----------------------------------------------------------------------------
(* Enums of the migration and the inputs of the forms *)

LeadStatus == {"new", "in_progress", "converted"}

LeadPurpose == {"application_process", "language_class"}

ApplicationStatus == {"documents_pending", "documents_submitted", "application_sent",
                      "offer_received", "visa_applied", "completed"}

\* the order in which the statuses are listed
LeadRank(s) == CASE s = "new" -> 1 [] s = "in_progress" -> 2 [] s = "converted" -> 3
                 [] OTHER -> 0

ApplicationRank(s) ==
    CASE s = "documents_pending" -> 1 [] s = "documents_submitted" -> 2
      [] s = "application_sent" -> 3 [] s = "offer_received" -> 4
      [] s = "visa_applied" -> 5 [] s = "completed" -> 6 [] OTHER -> 0

Users == {"u1", "u2"}
NoUser == "none"

\* profiles.id of the profile row whose user_id is u (gen_random_uuid: never the user id)
ProfileId(u) == CASE u = "u1" -> "p1" [] u = "u2" -> "p2" [] OTHER -> "undefined"

\* user.data.user?.id! : undefined when no user is signed in
UserIdOrUndefined(u) == IF u = NoUser THEN "undefined" ELSE u

Responses == {"ok", "error"}

\* the value of a form field that was never set (a Select nobody opened)
Undefined == "undefined"

\* what a form field can hold when the form is submitted
AtLeast1Inputs == {"", "A"}       \* for z.string().min(1)
AtLeast2Inputs == {"A", "Al"}     \* for z.string().min(2)
LeadStatusInputs == LeadStatus \cup {"archived"}
AppStatusInputs == ApplicationStatus \cup {"rejected"}
PurposeInputs == {"language_class", Undefined}

\* row-level security: the policies are TO authenticated
Accepted(user, r) == user # NoUser /\ r = "ok"

StrLen(s) == CASE s = "" -> 0 [] s = "A" -> 1 [] OTHER -> 2

----------------------------------------------------------------------------
(* The record of the last handler run *)

NoWrites == << >>

Write(table, kind, status, creator) ==
    [table |-> table, kind |-> kind, status |-> status, created_by |-> creator]

\* op: the handler; valid: the resolver let the values through; ok: every remote
\* call made succeeded; toasts: the toasts shown, in order; sent: the writes sent
\* errors: the field errors the resolver reported, as (path, message) pairs
Outcome(op, valid, ok, toasts, sent) ==
    [op |-> op, valid |-> valid, ok |-> ok, toasts |-> toasts, sent |-> sent,
     errors |-> {}, reload |-> FALSE, event |-> "none", files |-> 0,
     input |-> "none", before |-> {}, client |-> "none", message |-> "none"]

\* event: how the handler's timeline insert ended ("none": there was none);
\* files: the number of files handed to handleDocumentUpload;
\* input: the status (for CreateBatchForm: the values) the handler was given;
\* before: the statuses that an accepted status update replaced
\* client: what getUser() and the profiles lookup gave a handler that asks for
\* both; message: the description of the destructive toast, where it is a
\* message of the handler's own
Given(outcome, input) == [outcome EXCEPT !.input = input]
Replacing(outcome, statuses) == [outcome EXCEPT !.before = statuses]

\* the handler went on to reload: the page's callback (onLeadAdded, onStatusUpdated,
\* ...) or loadStudentData()
Reloading(outcome) == [outcome EXCEPT !.reload = TRUE]

\* react-hook-form does not call onSubmit when the resolver reports errors
Rejected(op) == Outcome(op, FALSE, TRUE, << >>, NoWrites)

\* rows inserted so far, the documents apart
TotalRows == Len(leads) + Len(students) + uniCount + Len(batches) + Len(batchStudents)

Success == "success"
Destructive == "error"

\* the handler without its `if (!profile) throw`
MayInsert_anyUser(user, profile) == user # NoUser

\* the handler goes on to its insert: a user is signed in and has a profile row
MayInsert(user, profile) == user # NoUser /\ profile

\* getUser() and the profiles lookup, as the handler saw them
ClientOf(user, profile) ==
    IF user = NoUser THEN "nouser" ELSE IF ~profile THEN "noprofile" ELSE "profile"

Seen(outcome, user, profile) == [outcome EXCEPT !.client = ClientOf(user, profile)]

\* the outcome of a handler that went on to its insert
Tried(op, ok, toasts, sent, user, profile) ==
    Seen(Outcome(op, TRUE, ok, toasts, sent), user, profile)

\* throw new Error("You must be logged in ...") / throw new Error("Profile not found"),
\* caught by the handler's own catch
NotAllowed(op, user, profile) ==
    [Seen(Outcome(op, TRUE, FALSE, <<Destructive>>, NoWrites), user, profile)
       EXCEPT !.message = IF user = NoUser THEN "You must be logged in"
                          ELSE "Profile not found"]

----------------------------------------------------------------------------
(* Leads: AddLeadForm, EditLeadForm, ConvertLeadForm *)

leadSchema(data) ==
    /\ StrLen(data.name) >= 1
    /\ data.purpose \in LeadPurpose

AddLeadInputs == [name : AtLeast1Inputs, purpose : PurposeInputs]

\* user: auth.getUser(); profile: the profiles query found a row; r: the insert's answer
AddLeadForm_onSubmit(data, user, profile, r) ==
    /\ TotalRows < MaxRows
    /\ UNCHANGED <<students, universities, uniCount, documents, docCount, storage,
                   batches, batchStudents, timeline, now, localStudents, pending>>
    /\ IF ~leadSchema(data)
       THEN /\ last' = Rejected("AddLeadForm")
            /\ UNCHANGED leads
       ELSE IF ~MayInsert(user, profile)
       THEN /\ last' = NotAllowed("AddLeadForm", user, profile)
            /\ UNCHANGED leads
       ELSE LET w == Write("leads", "insert", "", ProfileId(user)) IN
            IF Accepted(user, r)
            THEN /\ leads' = Append(leads, [status |-> "new",
                                            created_by |-> ProfileId(user),
                                            by |-> user])
                 /\ last' = Reloading(Tried("AddLeadForm", TRUE, <<Success>>, <<w>>, user, profile))
            ELSE /\ last' = Tried("AddLeadForm", FALSE, <<Destructive>>, <<w>>, user, profile)
                 /\ UNCHANGED leads

EditLeadSchema(values) ==
    /\ StrLen(values.name) >= 2
    /\ values.purpose \in LeadPurpose
    /\ values.status \in LeadStatus

EditLeadInputs == [name : AtLeast2Inputs, purpose : PurposeInputs, status : LeadStatusInputs]

\* the form is open on lead l; user is the client's session, r the update's answer
EditLeadForm_onSubmit(l, values, user, r) ==
    /\ l \in DOMAIN leads
    /\ UNCHANGED <<students, universities, uniCount, documents, docCount, storage,
                   batches, batchStudents, timeline, now, localStudents, pending>>
    /\ IF ~EditLeadSchema(values)
       THEN /\ last' = Given(Rejected("EditLeadForm"), values.status)
            /\ UNCHANGED leads
       ELSE LET w == Write("leads", "update", values.status, "") IN
            IF Accepted(user, r)
            THEN /\ leads' = [leads EXCEPT ![l].status = values.status]
                 /\ last' = Replacing(Given(Reloading(Outcome("EditLeadForm", TRUE, TRUE,
                                                             <<Success>>, <<w>>)),
                                            values.status),
                                      {leads[l].status})
            ELSE /\ last' = Given(Outcome("EditLeadForm", TRUE, FALSE, <<Destructive>>, <<w>>),
                                  values.status)
                 /\ UNCHANGED leads

ConvertLeadSchema(values) ==
    /\ StrLen(values.full_name) >= 2
    /\ values.status \in ApplicationStatus

ConvertLeadInputs == [full_name : AtLeast2Inputs, status : AppStatusInputs]

\* a conversion that resets the lead instead
ConvertedStatus_reset == "new"

\* the status ConvertLeadForm writes to the lead
ConvertedStatus == "converted"

\* the handler without its `if (studentError) throw studentError`
ConvertLeadForm_onSubmit_noThrow(l, values, user, r1, r2) ==
    /\ l \in DOMAIN leads
    /\ TotalRows < MaxRows
    /\ UNCHANGED <<universities, uniCount, documents, docCount, storage,
                   batches, batchStudents, timeline, now, localStudents, pending>>
    /\ IF ~ConvertLeadSchema(values)
       THEN /\ last' = Given(Rejected("ConvertLeadForm"), values.status)
            /\ UNCHANGED <<leads, students>>
       ELSE LET w1 == Write("application_students", "insert", values.status,
                           UserIdOrUndefined(user))
                w2 == Write("leads", "update", ConvertedStatus, "")
            IN
            /\ students' = IF Accepted(user, r1)
                           THEN Append(students, [status |-> values.status,
                                                  created_by |-> UserIdOrUndefined(user),
                                                  by |-> user,
                                                  lead |-> l])
                           ELSE students
            /\ IF Accepted(user, r2)
               THEN /\ leads' = [leads EXCEPT ![l].status = ConvertedStatus]
                    /\ last' = Given(Reloading(Outcome("ConvertLeadForm", TRUE, TRUE,
                                                        <<Success>>, <<w1, w2>>)),
                                     values.status)
               ELSE /\ UNCHANGED leads
                    /\ last' = Given(Outcome("ConvertLeadForm", TRUE, FALSE,
                                             <<Destructive>>, <<w1, w2>>),
                                     values.status)

\* r1: the answer to the application_students insert; r2: to the leads update
ConvertLeadForm_onSubmit(l, values, user, r1, r2) ==
    /\ l \in DOMAIN leads
    /\ TotalRows < MaxRows
    /\ UNCHANGED <<universities, uniCount, documents, docCount, storage,
                   batches, batchStudents, timeline, now, localStudents, pending>>
    /\ IF ~ConvertLeadSchema(values)
       THEN /\ last' = Given(Rejected("ConvertLeadForm"), values.status)
            /\ UNCHANGED <<leads, students>>
       ELSE LET w1 == Write("application_students", "insert", values.status,
                           UserIdOrUndefined(user))
                w2 == Write("leads", "update", ConvertedStatus, "")
            IN
            IF ~Accepted(user, r1)
            THEN /\ last' = Given(Outcome("ConvertLeadForm", TRUE, FALSE,
                                          <<Destructive>>, <<w1>>), values.status)
                 /\ UNCHANGED <<leads, students>>
            ELSE /\ students' = Append(students, [status |-> values.status,
                                                  created_by |-> UserIdOrUndefined(user),
                                                  by |-> user,
                                                  lead |-> l])
                 /\ IF Accepted(user, r2)
                    THEN /\ leads' = [leads EXCEPT ![l].status = ConvertedStatus]
                         /\ last' = Given(Reloading(Outcome("ConvertLeadForm", TRUE, TRUE,
                                                             <<Success>>, <<w1, w2>>)),
                                          values.status)
                    ELSE /\ UNCHANGED leads
                         /\ last' = Given(Outcome("ConvertLeadForm", TRUE, FALSE,
                                                  <<Destructive>>, <<w1, w2>>),
                                          values.status)

----------------------------------------------------------------------------
(* Language classes: CreateBatchForm, AddStudentToBatchForm *)

\* an <input type="date"> holds "" (here 0) or a date (here 1..MaxDate)
MaxDate == 2
DateInputs == 0 .. MaxDate

\* the refinement written with >= instead of >
DateAfter_orEqual(endDate, startDate) ==
    endDate # 0 /\ startDate # 0 /\ endDate >= startDate

\* new Date(s): Invalid Date for "", and every comparison with it is false
DateAfter(endDate, startDate) == endDate # 0 /\ startDate # 0 /\ endDate > startDate

ClassTypeInputs == {Undefined, "", "IELTS"}

BatchInputs == [name : AtLeast1Inputs, class_type : ClassTypeInputs,
                start_date : DateInputs, end_date : DateInputs]

\* the issues zod reports, in order: the fields in the order of the object, then
\* the refinement, which is skipped when a field has the wrong type
batchSchemaIssues(data) ==
    (IF StrLen(data.name) < 1
       THEN <<[path |-> "name", message |-> "Batch name is required"]>> ELSE << >>)
    \o (IF data.class_type = Undefined
          THEN <<[path |-> "class_type", message |-> "Required"]>>
        ELSE IF data.class_type = ""
          THEN <<[path |-> "class_type", message |-> "Class type is required"]>>
        ELSE << >>)
    \o (IF data.start_date = 0
          THEN <<[path |-> "start_date", message |-> "Start date is required"]>>
        ELSE << >>)
    \o (IF data.end_date = 0
          THEN <<[path |-> "end_date", message |-> "End date is required"]>> ELSE << >>)
    \o (IF data.class_type # Undefined /\ ~DateAfter(data.end_date, data.start_date)
          THEN <<[path |-> "end_date", message |-> "End date must be after start date"]>>
        ELSE << >>)

batchSchema(data) == batchSchemaIssues(data) = << >>

\* zodResolver keeps the first issue of each path
FieldErrors(issues) ==
    {issues[i] : i \in {j \in DOMAIN issues :
                          \A k \in 1 .. (j - 1) : issues[k].path # issues[j].path}}

CreateBatchForm_onSubmit(data, user, profile, r) ==
    /\ TotalRows < MaxRows
    /\ UNCHANGED <<leads, students, universities, uniCount, documents, docCount, storage,
                   batchStudents, timeline, now, localStudents, pending>>
    /\ IF ~batchSchema(data)
       THEN /\ last' = [Given(Rejected("CreateBatchForm"), data) EXCEPT
                           !.errors = FieldErrors(batchSchemaIssues(data))]
            /\ UNCHANGED batches
       ELSE IF ~MayInsert(user, profile)
       THEN /\ last' = Given(NotAllowed("CreateBatchForm", user, profile), data)
            /\ UNCHANGED batches
       ELSE LET w == Write("language_batches", "insert", "", ProfileId(user)) IN
            IF Accepted(user, r)
            THEN /\ batches' = Append(batches, [name |-> data.name,
                                                class_type |-> data.class_type,
                                                start_date |-> data.start_date,
                                                end_date |-> data.end_date,
                                                created_by |-> ProfileId(user),
                                                by |-> user])
                 /\ last' = Given(Reloading(Tried("CreateBatchForm", TRUE, <<Success>>, <<w>>, user, profile)), data)
            ELSE /\ last' = Given(Tried("CreateBatchForm", FALSE, <<Destructive>>, <<w>>, user, profile), data)
                 /\ UNCHANGED batches

\* enrollment_date is a Date the calendar sets; the default value is today
AddStudentToBatchSchema(values) == StrLen(values.student_name) >= 2

AddStudentToBatchInputs == [student_name : AtLeast2Inputs]

AddStudentToBatchForm_onSubmit(b, values, user, profile, r) ==
    /\ b \in DOMAIN batches
    /\ TotalRows < MaxRows
    /\ UNCHANGED <<leads, students, universities, uniCount, documents, docCount, storage,
                   batches, timeline, now, localStudents, pending>>
    /\ IF ~AddStudentToBatchSchema(values)
       THEN /\ last' = Rejected("AddStudentToBatchForm")
            /\ UNCHANGED batchStudents
       ELSE IF ~MayInsert(user, profile)
       THEN /\ last' = NotAllowed("AddStudentToBatchForm", user, profile)
            /\ UNCHANGED batchStudents
       ELSE LET w == Write("batch_students", "insert", "", ProfileId(user)) IN
            IF Accepted(user, r)
            THEN /\ batchStudents' = Append(batchStudents, [batch_id |-> b,
                                                            created_by |-> ProfileId(user),
                                                            by |-> user])
                 /\ last' = Reloading(Tried("AddStudentToBatchForm", TRUE, <<Success>>, <<w>>, user, profile))
            ELSE /\ last' = Tried("AddStudentToBatchForm", FALSE, <<Destructive>>, <<w>>, user, profile)
                 /\ UNCHANGED batchStudents

----------------------------------------------------------------------------
(* Application students: the forms of the Applications page *)

AddStudentSchema(data) == StrLen(data.full_name) >= 1

AddStudentInputs == [full_name : AtLeast1Inputs]

\* the form with `return` where it throws 'Profile not found'
AddStudentForm_onSubmit_silent(data, user, profile, r) ==
    /\ TotalRows < MaxRows
    /\ UNCHANGED <<leads, universities, uniCount, documents, docCount, storage,
                   batches, batchStudents, timeline, now, localStudents, pending>>
    /\ IF ~AddStudentSchema(data)
       THEN /\ last' = Rejected("AddStudentForm")
            /\ UNCHANGED students
       ELSE IF user = NoUser \/ ~profile
       THEN /\ last' = Outcome("AddStudentForm", TRUE, FALSE, << >>, NoWrites)
            /\ UNCHANGED students
       ELSE LET w == Write("application_students", "insert", "", ProfileId(user)) IN
            IF Accepted(user, r)
            THEN /\ students' = Append(students, [status |-> "documents_pending",
                                                  created_by |-> ProfileId(user),
                                                  by |-> user,
                                                  lead |-> 0])
                 /\ last' = Reloading(Tried("AddStudentForm", TRUE, <<Success>>, <<w>>, user, profile))
            ELSE /\ last' = Tried("AddStudentForm", FALSE, <<Destructive>>, <<w>>, user, profile)
                 /\ UNCHANGED students

\* no status is sent: the column default of the migration applies
AddStudentForm_onSubmit(data, user, profile, r) ==
    /\ TotalRows < MaxRows
    /\ UNCHANGED <<leads, universities, uniCount, documents, docCount, storage,
                   batches, batchStudents, timeline, now, localStudents, pending>>
    /\ IF ~AddStudentSchema(data)
       THEN /\ last' = Rejected("AddStudentForm")
            /\ UNCHANGED students
       ELSE IF ~MayInsert(user, profile)
       THEN /\ last' = NotAllowed("AddStudentForm", user, profile)
            /\ UNCHANGED students
       ELSE LET w == Write("application_students", "insert", "", ProfileId(user)) IN
            IF Accepted(user, r)
            THEN /\ students' = Append(students, [status |-> "documents_pending",
                                                  created_by |-> ProfileId(user),
                                                  by |-> user,
                                                  lead |-> 0])
                 /\ last' = Reloading(Tried("AddStudentForm", TRUE, <<Success>>, <<w>>, user, profile))
            ELSE /\ last' = Tried("AddStudentForm", FALSE, <<Destructive>>, <<w>>, user, profile)
                 /\ UNCHANGED students

\* the schema with z.string() where it has z.enum([...])
UpdateStatusSchema_anyString(values) == TRUE

UpdateStatusSchema(values) == values.status \in ApplicationStatus

UpdateStatusInputs == [status : AppStatusInputs]

\* the form refusing a status that comes before the student's status
UpdateStatusForm_onSubmit_forwardOnly(s, values, user, r) ==
    /\ s \in DOMAIN students
    /\ UNCHANGED <<leads, universities, uniCount, documents, docCount, storage,
                   batches, batchStudents, timeline, now, localStudents, pending>>
    /\ IF ~(UpdateStatusSchema(values)
            /\ ApplicationRank(values.status) >= ApplicationRank(students[s].status))
       THEN /\ last' = Given(Rejected("UpdateStatusForm"), values.status)
            /\ UNCHANGED students
       ELSE LET w == Write("application_students", "update", values.status, "") IN
            IF Accepted(user, r)
            THEN /\ students' = [students EXCEPT ![s].status = values.status]
                 /\ last' = Replacing(Given(Reloading(Outcome("UpdateStatusForm", TRUE, TRUE,
                                                             <<Success>>, <<w>>)),
                                            values.status),
                                      {students[s].status})
            ELSE /\ last' = Given(Outcome("UpdateStatusForm", TRUE, FALSE,
                                          <<Destructive>>, <<w>>), values.status)
                 /\ UNCHANGED students

\* the form is open on student s
UpdateStatusForm_onSubmit(s, values, user, r) ==
    /\ s \in DOMAIN students
    /\ UNCHANGED <<leads, universities, uniCount, documents, docCount, storage,
                   batches, batchStudents, timeline, now, localStudents, pending>>
    /\ IF ~UpdateStatusSchema(values)
       THEN /\ last' = Given(Rejected("UpdateStatusForm"), values.status)
            /\ UNCHANGED students
       ELSE LET w == Write("application_students", "update", values.status, "") IN
            IF Accepted(user, r)
            THEN /\ students' = [students EXCEPT ![s].status = values.status]
                 /\ last' = Replacing(Given(Reloading(Outcome("UpdateStatusForm", TRUE, TRUE,
                                                             <<Success>>, <<w>>)),
                                            values.status),
                                      {students[s].status})
            ELSE /\ last' = Given(Outcome("UpdateStatusForm", TRUE, FALSE,
                                          <<Destructive>>, <<w>>), values.status)
                 /\ UNCHANGED students

\* selected: the checked students; newStatus: an item of the Select, one per
\* key of STATUS_LABELS.  Nothing validates: the handler runs on every choice.
handleBulkStatusUpdate(selected, newStatus, user, r) ==
    /\ selected \subseteq DOMAIN students
    /\ UNCHANGED <<leads, universities, uniCount, documents, docCount, storage,
                   batches, batchStudents, timeline, now, localStudents, pending>>
    /\ IF selected = {}
       THEN /\ last' = Outcome("handleBulkStatusUpdate", TRUE, TRUE, << >>, NoWrites)
            /\ UNCHANGED students
       ELSE LET w == Write("application_students", "update", newStatus, "") IN
            IF Accepted(user, r)
            THEN /\ students' = [i \in DOMAIN students |->
                                    IF i \in selected
                                    THEN [students[i] EXCEPT !.status = newStatus]
                                    ELSE students[i]]
                 /\ last' = Replacing(Given(Reloading(Outcome("handleBulkStatusUpdate",
                                                             TRUE, TRUE, <<Success>>, <<w>>)),
                                            newStatus),
                                      {students[i].status : i \in selected})
            ELSE /\ last' = Given(Outcome("handleBulkStatusUpdate", TRUE, FALSE,
                                          <<Destructive>>, <<w>>), newStatus)
                 /\ UNCHANGED students

\* values.status || null
Null == "null"
OrNull(v) == IF v = "" \/ v = Undefined THEN Null ELSE v

UniversityStatusInputs == {"", "applied", "accepted"}

TrackApplicationSchema(values) ==
    /\ StrLen(values.university_name) >= 1
    /\ StrLen(values.course_name) >= 1

TrackApplicationInputs == [university_name : AtLeast1Inputs, course_name : AtLeast1Inputs,
                           status : UniversityStatusInputs \cup {Undefined}]

TrackApplicationForm_onSubmit(s, values, user, r) ==
    /\ s \in DOMAIN students
    /\ TotalRows < MaxRows
    /\ UNCHANGED <<leads, students, documents, docCount, storage,
                   batches, batchStudents, timeline, now, localStudents, pending>>
    /\ IF ~TrackApplicationSchema(values)
       THEN /\ last' = Rejected("TrackApplicationForm")
            /\ UNCHANGED <<universities, uniCount>>
       ELSE LET w == Write("universities", "insert", OrNull(values.status), "") IN
            IF Accepted(user, r)
            THEN /\ universities' = universities \cup
                                      {[id |-> uniCount + 1, student_id |-> s,
                                        status |-> OrNull(values.status)]}
                 /\ uniCount' = uniCount + 1
                 /\ last' = Reloading(Outcome("TrackApplicationForm", TRUE, TRUE, <<Success>>, <<w>>))
            ELSE /\ last' = Outcome("TrackApplicationForm", TRUE, FALSE,
                                     <<Destructive>>, <<w>>)
                 /\ UNCHANGED <<universities, uniCount>>

\* file.name.split('.').pop()
FileExts == {"pdf", "png"}

\* `${studentId}/${Date.now()}.${fileExt}`
FilePath(s, time, ext) == [student |-> s, time |-> time, ext |-> ext]

\* storage upload without upsert: an object that exists is not replaced
Uploaded(user, r, path) == Accepted(user, r) /\ path \notin storage

UploadDocumentsSchema(values) ==
    /\ StrLen(values.document_type) >= 1
    /\ values.file # Undefined

UploadDocumentsInputs == [document_type : {"", "Al"}, file : FileExts \cup {Undefined}]

\* the handler without its `if (uploadError) throw uploadError`
UploadDocumentsForm_onSubmit_noThrow(s, values, t, user, r1, r2) ==
    /\ s \in DOMAIN students
    /\ t \in now .. MaxTime
    /\ docCount < MaxDocs
    /\ Cardinality(storage) < MaxDocs
    /\ UNCHANGED <<leads, students, universities, uniCount,
                   batches, batchStudents, timeline, localStudents, pending>>
    /\ IF ~UploadDocumentsSchema(values)
       THEN /\ last' = Rejected("UploadDocumentsForm")
            /\ UNCHANGED <<documents, docCount, storage, now>>
       ELSE LET fileName == FilePath(s, t, values.file)
                w == Write("documents", "insert", "", UserIdOrUndefined(user))
            IN
            /\ now' = t
            /\ storage' = IF Uploaded(user, r1, fileName)
                          THEN storage \cup {fileName} ELSE storage
            /\ IF Accepted(user, r2)
               THEN /\ documents' = documents \cup
                                      {[id |-> docCount + 1, student_id |-> s,
                                        file_path |-> fileName,
                                        uploaded_by |-> UserIdOrUndefined(user),
                                        by |-> user]}
                    /\ docCount' = docCount + 1
                    /\ last' = Reloading(Outcome("UploadDocumentsForm", TRUE, TRUE,
                                                 <<Success>>, <<w>>))
               ELSE /\ UNCHANGED <<documents, docCount>>
                    /\ last' = Outcome("UploadDocumentsForm", TRUE, FALSE,
                                       <<Destructive>>, <<w>>)

\* t: Date.now(), which never goes back; r1: the answer to the storage upload;
\* r2: to the documents insert
UploadDocumentsForm_onSubmit(s, values, t, user, r1, r2) ==
    /\ s \in DOMAIN students
    /\ t \in now .. MaxTime
    /\ docCount < MaxDocs
    /\ Cardinality(storage) < MaxDocs
    /\ UNCHANGED <<leads, students, universities, uniCount,
                   batches, batchStudents, timeline, localStudents, pending>>
    /\ IF ~UploadDocumentsSchema(values)
       THEN /\ last' = Rejected("UploadDocumentsForm")
            /\ UNCHANGED <<documents, docCount, storage, now>>
       ELSE LET fileName == FilePath(s, t, values.file)
                w == Write("documents", "insert", "", UserIdOrUndefined(user))
            IN
            /\ now' = t
            /\ IF ~Uploaded(user, r1, fileName)
               THEN /\ last' = Outcome("UploadDocumentsForm", TRUE, FALSE,
                                        <<Destructive>>, NoWrites)
                    /\ UNCHANGED <<documents, docCount, storage>>
               ELSE /\ storage' = storage \cup {fileName}
                    /\ IF Accepted(user, r2)
                       THEN /\ documents' = documents \cup
                                              {[id |-> docCount + 1, student_id |-> s,
                                                file_path |-> fileName,
                                                uploaded_by |-> UserIdOrUndefined(user),
                                                by |-> user]}
                            /\ docCount' = docCount + 1
                            /\ last' = Reloading(Outcome("UploadDocumentsForm", TRUE, TRUE,
                                                <<Success>>, <<w>>))
                       ELSE /\ UNCHANGED <<documents, docCount>>
                            /\ last' = Outcome("UploadDocumentsForm", TRUE, FALSE,
                                                <<Destructive>>, <<w>>)

----------------------------------------------------------------------------
(* StudentApplicationDetails: the dialog open on one student *)

\* how the timeline_events insert ends: accepted, an error result, an exception
TimelineResults == {"ok", "error", "throw"}

\* addTimelineEvent without its try/catch
addTimelineEventThrows_uncaught(tr) == tr = "throw"

\* addTimelineEvent catches every exception and only warns on an error result
addTimelineEventThrows(tr) == FALSE

\* addTimelineEvent written as an upsert that replaces the student's events
addTimelineEvent_upsert(tl, s, eventType, user, tr) ==
    IF Accepted(user, tr)
    THEN <<[student_id |-> s, event_type |-> eventType]>>
    ELSE tl

\* the table after addTimelineEvent(eventType) of the dialog of student s
addTimelineEvent(tl, s, eventType, user, tr) ==
    IF Accepted(user, tr)
    THEN Append(tl, [student_id |-> s, event_type |-> eventType])
    ELSE tl

WithEvent(outcome, tr) == [outcome EXCEPT !.event = tr]

\* what handleError leaves: one destructive toast
Failed(op, sent) == Outcome(op, TRUE, FALSE, <<Destructive>>, sent)

\* the end of a handler whose own calls succeeded and which then recorded the event
AfterEvent(op, sent, tr) ==
    IF addTimelineEventThrows(tr)
    THEN WithEvent(Failed(op, sent), tr)
    ELSE WithEvent(Reloading(Outcome(op, TRUE, tr = "ok", <<Success>>, sent)), tr)

studentSchema(data) ==
    /\ StrLen(data.full_name) >= 2
    /\ data.status \in ApplicationStatus

StudentInputs == [full_name : AtLeast2Inputs, status : AppStatusInputs]

updateStudent(s, data, user, r, tr) ==
    /\ s \in DOMAIN students
    /\ Len(timeline) < MaxEvents
    /\ UNCHANGED <<leads, universities, uniCount, documents, docCount, storage,
                   batches, batchStudents, now, localStudents, pending>>
    /\ IF ~studentSchema(data)
       THEN /\ last' = Rejected("updateStudent")
            /\ UNCHANGED <<students, timeline>>
       ELSE LET w == Write("application_students", "update", data.status, "") IN
            IF ~Accepted(user, r)
            THEN /\ last' = Failed("updateStudent", <<w>>)
                 /\ UNCHANGED <<students, timeline>>
            ELSE /\ students' = [students EXCEPT ![s].status = data.status]
                 /\ timeline' = addTimelineEvent(timeline, s, "student_updated", user, tr)
                 /\ last' = AfterEvent("updateStudent", <<w>>, tr)

universitySchema(data) ==
    /\ StrLen(data.university_name) >= 1
    /\ StrLen(data.course_name) >= 1
    /\ data.status # ""

UniversityInputs == [university_name : AtLeast1Inputs, course_name : AtLeast1Inputs,
                     status : UniversityStatusInputs]

addUniversity(s, data, user, r, tr) ==
    /\ s \in DOMAIN students
    /\ TotalRows < MaxRows
    /\ Len(timeline) < MaxEvents
    /\ UNCHANGED <<leads, students, documents, docCount, storage,
                   batches, batchStudents, now, localStudents, pending>>
    /\ IF ~universitySchema(data)
       THEN /\ last' = Rejected("addUniversity")
            /\ UNCHANGED <<universities, uniCount, timeline>>
       ELSE LET w == Write("universities", "insert", data.status, "") IN
            IF ~Accepted(user, r)
            THEN /\ last' = Failed("addUniversity", <<w>>)
                 /\ UNCHANGED <<universities, uniCount, timeline>>
            ELSE /\ universities' = universities \cup
                                      {[id |-> uniCount + 1, student_id |-> s,
                                        status |-> data.status]}
                 /\ uniCount' = uniCount + 1
                 /\ timeline' = addTimelineEvent(timeline, s, "university_added", user, tr)
                 /\ last' = AfterEvent("addUniversity", <<w>>, tr)

\* the row of the universities table with this id, as a set
UniversityById(id) == {u \in universities : u.id = id}

\* updateUniversity moving the student on when a university accepts
updateUniversity_cascading(u, data, user, r, tr) ==
    /\ u \in universities
    /\ Len(timeline) < MaxEvents
    /\ UNCHANGED <<leads, uniCount, documents, docCount, storage,
                   batches, batchStudents, now, localStudents, pending>>
    /\ IF ~universitySchema(data)
       THEN /\ last' = Rejected("updateUniversity")
            /\ UNCHANGED <<students, universities, timeline>>
       ELSE LET w == Write("universities", "update", data.status, "") IN
            IF ~Accepted(user, r)
            THEN /\ last' = Failed("updateUniversity", <<w>>)
                 /\ UNCHANGED <<students, universities, timeline>>
            ELSE /\ universities' = (universities \ UniversityById(u.id)) \cup
                                      {[x EXCEPT !.status = data.status] :
                                         x \in UniversityById(u.id)}
                 /\ students' = IF data.status = "accepted"
                                THEN [students EXCEPT
                                        ![u.student_id].status = "offer_received"]
                                ELSE students
                 /\ timeline' = addTimelineEvent(timeline, u.student_id,
                                                 "university_updated", user, tr)
                 /\ last' = AfterEvent("updateUniversity", <<w>>, tr)

\* u: a university of the list the dialog shows
updateUniversity(u, data, user, r, tr) ==
    /\ u \in universities
    /\ Len(timeline) < MaxEvents
    /\ UNCHANGED <<leads, students, uniCount, documents, docCount, storage,
                   batches, batchStudents, now, localStudents, pending>>
    /\ IF ~universitySchema(data)
       THEN /\ last' = Rejected("updateUniversity")
            /\ UNCHANGED <<universities, timeline>>
       ELSE LET w == Write("universities", "update", data.status, "") IN
            IF ~Accepted(user, r)
            THEN /\ last' = Failed("updateUniversity", <<w>>)
                 /\ UNCHANGED <<universities, timeline>>
            ELSE /\ universities' = (universities \ UniversityById(u.id)) \cup
                                      {[x EXCEPT !.status = data.status] :
                                         x \in UniversityById(u.id)}
                 /\ timeline' = addTimelineEvent(timeline, u.student_id,
                                                 "university_updated", user, tr)
                 /\ last' = AfterEvent("updateUniversity", <<w>>, tr)

\* confirmed: the answer to confirm()
deleteUniversity(u, confirmed, user, r, tr) ==
    /\ u \in universities
    /\ Len(timeline) < MaxEvents
    /\ UNCHANGED <<leads, students, uniCount, documents, docCount, storage,
                   batches, batchStudents, now, localStudents, pending>>
    /\ IF ~confirmed
       THEN /\ last' = Outcome("deleteUniversity", TRUE, TRUE, << >>, NoWrites)
            /\ UNCHANGED <<universities, timeline>>
       ELSE LET w == Write("universities", "delete", "", "") IN
            IF ~Accepted(user, r)
            THEN /\ last' = Failed("deleteUniversity", <<w>>)
                 /\ UNCHANGED <<universities, timeline>>
            ELSE /\ universities' = universities \ UniversityById(u.id)
                 /\ timeline' = addTimelineEvent(timeline, u.student_id,
                                                 "university_deleted", user, tr)
                 /\ last' = AfterEvent("deleteUniversity", <<w>>, tr)

\* one file of the FileList: its extension, the Date.now() read for its name and
\* the answers to its upload, its documents insert and its timeline insert
FileInputs == {f \in [ext : FileExts, t : 0 .. MaxTime, r1 : Responses,
                      r2 : Responses, tr : TimelineResults] :
                 /\ (f.r1 = "error" => f.r2 = "error")
                 /\ (f.r2 = "error" => f.tr = "error")}

\* the files of 1 .. n, in the order of the FileList
FileLists(n) == UNION {[1 .. k -> FileInputs] : k \in 0 .. n}

\* the body of the map over the files, one file after the other; acc holds the
\* bucket, the tables and the toasts so far
RECURSIVE UploadEach(_, _, _, _)
UploadEach(acc, files, s, user) ==
    IF files = << >> THEN acc
    ELSE LET f == Head(files)
             fileName == FilePath(s, f.t, f.ext)
             w == Write("documents", "insert", "", "system")
             next ==
               IF ~(Accepted(user, f.r1) /\ fileName \notin acc.storage)
               THEN [acc EXCEPT !.toasts = Append(@, Destructive)]
               ELSE IF ~Accepted(user, f.r2)
               THEN [acc EXCEPT !.storage = @ \cup {fileName},
                                !.sent = Append(@, w),
                                !.toasts = Append(@, Destructive)]
               ELSE [acc EXCEPT !.storage = @ \cup {fileName},
                                !.sent = Append(@, w),
                                !.documents = @ \cup
                                    {[id |-> acc.docCount + 1, student_id |-> s,
                                      file_path |-> fileName,
                                      uploaded_by |-> "system", by |-> user]},
                                !.docCount = @ + 1,
                                !.timeline = addTimelineEvent(@, s, "document_uploaded",
                                                              user, f.tr),
                                !.toasts = IF addTimelineEventThrows(f.tr)
                                           THEN Append(@, Destructive) ELSE @]
         IN UploadEach(next, Tail(files), s, user)

\* Date.now() never goes back
Nondecreasing(files) ==
    /\ \A i \in DOMAIN files : files[i].t >= now
    /\ \A i, j \in DOMAIN files : i < j => files[i].t <= files[j].t

\* the fileName of each file of the call, in the order of the FileList
FileNames(s, files) == [i \in DOMAIN files |-> FilePath(s, files[i].t, files[i].ext)]

handleDocumentUpload(s, files, user) ==
    /\ s \in DOMAIN students
    /\ Nondecreasing(files)
    /\ docCount < MaxDocs
    /\ Cardinality(storage) < MaxDocs
    /\ Len(timeline) < MaxEvents
    /\ UNCHANGED <<leads, students, universities, uniCount,
                   batches, batchStudents, localStudents, pending>>
    /\ IF files = << >>
       THEN /\ last' = Outcome("handleDocumentUpload", TRUE, TRUE, << >>, NoWrites)
            /\ UNCHANGED <<documents, docCount, storage, timeline, now>>
       ELSE LET acc == UploadEach([storage |-> storage, documents |-> documents,
                                   docCount |-> docCount, timeline |-> timeline,
                                   toasts |-> << >>, sent |-> << >>],
                                  files, s, user)
            IN
            /\ storage' = acc.storage
            /\ documents' = acc.documents
            /\ docCount' = acc.docCount
            /\ timeline' = acc.timeline
            /\ now' = files[Len(files)].t
            /\ last' = [Reloading(Outcome("handleDocumentUpload", TRUE,
                                          \A i \in DOMAIN files : files[i].tr = "ok",
                                          Append(acc.toasts, Success), acc.sent))
                          EXCEPT !.files = Len(files),
                                 !.input = FileNames(s, files)]

\* d: a document of the list the dialog shows
downloadDocument(d, user, r, tr) ==
    /\ d \in documents
    /\ Len(timeline) < MaxEvents
    /\ UNCHANGED <<leads, students, universities, uniCount, documents, docCount, storage,
                   batches, batchStudents, now, localStudents, pending>>
    /\ IF ~(Accepted(user, r) /\ d.file_path \in storage)
       THEN /\ last' = Failed("downloadDocument", NoWrites)
            /\ UNCHANGED timeline
       ELSE /\ timeline' = addTimelineEvent(timeline, d.student_id,
                                            "document_downloaded", user, tr)
            /\ last' = IF addTimelineEventThrows(tr)
                       THEN WithEvent(Failed("downloadDocument", NoWrites), tr)
                       ELSE WithEvent(Outcome("downloadDocument", TRUE, tr = "ok",
                                              << >>, NoWrites), tr)

\* r1: the answer to the storage remove; r2: to the documents delete
deleteDocument(d, confirmed, user, r1, r2, tr) ==
    /\ d \in documents
    /\ Len(timeline) < MaxEvents
    /\ UNCHANGED <<leads, students, universities, uniCount, docCount,
                   batches, batchStudents, now, localStudents, pending>>
    /\ IF ~confirmed
       THEN /\ last' = Outcome("deleteDocument", TRUE, TRUE, << >>, NoWrites)
            /\ UNCHANGED <<documents, storage, timeline>>
       ELSE LET w == Write("documents", "delete", "", "") IN
            IF ~Accepted(user, r1)
            THEN /\ last' = Failed("deleteDocument", NoWrites)
                 /\ UNCHANGED <<documents, storage, timeline>>
            ELSE /\ storage' = storage \ {d.file_path}
                 /\ IF ~Accepted(user, r2)
                    THEN /\ last' = Failed("deleteDocument", <<w>>)
                         /\ UNCHANGED <<documents, timeline>>
                    ELSE /\ documents' = {x \in documents : x.id # d.id}
                         /\ timeline' = addTimelineEvent(timeline, d.student_id,
                                                         "document_deleted", user, tr)
                         /\ last' = AfterEvent("deleteDocument", <<w>>, tr)

----------------------------------------------------------------------------
(* The modal forms and the bulk update of the pages *)

NoOutcome == Outcome("none", TRUE, TRUE, << >>, NoWrites)

Init ==
    /\ leads = << >>
    /\ students = << >>
    /\ universities = {}
    /\ uniCount = 0
    /\ documents = {}
    /\ docCount = 0
    /\ storage = {}
    /\ batches = << >>
    /\ batchStudents = << >>
    /\ timeline = << >>
    /\ now = 0
    /\ localStudents = << >>
    /\ pending = << >>
    /\ last = NoOutcome

Clients == Users \cup {NoUser}

\* a handler that sends no user id behaves alike for every signed-in user
Editors == {"u1", NoUser}

\* a client that is not authenticated is refused; a call that is not made has no answer
AnswersTo(user) == IF user = NoUser THEN {"error"} ELSE Responses
AnswersAfter(r) == IF r = "error" THEN {"error"} ELSE Responses
EventAnswersAfter(r) == IF r = "error" THEN {"error"} ELSE TimelineResults
ProfileFound(user) == IF user = NoUser THEN {FALSE} ELSE BOOLEAN
AnswersWith(user, profile) == IF profile THEN AnswersTo(user) ELSE {"error"}

AddLead == \E data \in AddLeadInputs, user \in Clients :
             \E profile \in ProfileFound(user) : \E r \in AnswersWith(user, profile) :
               AddLeadForm_onSubmit(data, user, profile, r)

EditLead == \E l \in DOMAIN leads, values \in EditLeadInputs, user \in Editors :
              \E r \in AnswersTo(user) : EditLeadForm_onSubmit(l, values, user, r)

ConvertLead == \E l \in DOMAIN leads, values \in ConvertLeadInputs, user \in Clients :
                 \E r1 \in AnswersTo(user) : \E r2 \in AnswersAfter(r1) :
                   ConvertLeadForm_onSubmit(l, values, user, r1, r2)

CreateBatch == \E data \in BatchInputs, user \in Clients :
                 \E profile \in ProfileFound(user) : \E r \in AnswersWith(user, profile) :
                   CreateBatchForm_onSubmit(data, user, profile, r)

AddStudentToBatch == \E b \in DOMAIN batches, values \in AddStudentToBatchInputs,
                        user \in Clients :
                       \E profile \in ProfileFound(user) :
                         \E r \in AnswersWith(user, profile) :
                           AddStudentToBatchForm_onSubmit(b, values, user, profile, r)

AddStudent == \E data \in AddStudentInputs, user \in Clients :
                \E profile \in ProfileFound(user) : \E r \in AnswersWith(user, profile) :
                  AddStudentForm_onSubmit(data, user, profile, r)

UpdateStatus == \E s \in DOMAIN students, values \in UpdateStatusInputs,
                   user \in Editors :
                  \E r \in AnswersTo(user) : UpdateStatusForm_onSubmit(s, values, user, r)

BulkStatusUpdate == \E selected \in SUBSET (DOMAIN students),
                       newStatus \in ApplicationStatus, user \in Editors :
                      \E r \in AnswersTo(user) :
                        handleBulkStatusUpdate(selected, newStatus, user, r)

TrackApplication == \E s \in DOMAIN students, values \in TrackApplicationInputs,
                       user \in Editors :
                      \E r \in AnswersTo(user) :
                        TrackApplicationForm_onSubmit(s, values, user, r)

UploadDocuments == \E s \in DOMAIN students, values \in UploadDocumentsInputs,
                      t \in 0 .. MaxTime, user \in Clients :
                     \E r1 \in AnswersTo(user) : \E r2 \in AnswersAfter(r1) :
                       UploadDocumentsForm_onSubmit(s, values, t, user, r1, r2)

UpdateStudent == \E s \in DOMAIN students, data \in StudentInputs, user \in Editors :
                   \E r \in AnswersTo(user) : \E tr \in EventAnswersAfter(r) :
                     updateStudent(s, data, user, r, tr)

AddUniversity == \E s \in DOMAIN students, data \in UniversityInputs, user \in Editors :
                   \E r \in AnswersTo(user) : \E tr \in EventAnswersAfter(r) :
                     addUniversity(s, data, user, r, tr)

UpdateUniversity == \E u \in universities, data \in UniversityInputs, user \in Editors :
                      \E r \in AnswersTo(user) : \E tr \in EventAnswersAfter(r) :
                        updateUniversity(u, data, user, r, tr)

DeleteUniversity == \E u \in universities, confirmed \in BOOLEAN, user \in Editors :
                      \E r \in AnswersTo(user) : \E tr \in EventAnswersAfter(r) :
                        deleteUniversity(u, confirmed, user, r, tr)

DocumentUpload == \E s \in DOMAIN students, files \in FileLists(MaxFiles),
                     user \in Clients : handleDocumentUpload(s, files, user)

DownloadDocument == \E d \in documents, user \in Editors :
                      \E r \in AnswersTo(user) : \E tr \in EventAnswersAfter(r) :
                        downloadDocument(d, user, r, tr)

DeleteDocument == \E d \in documents, confirmed \in BOOLEAN, user \in Editors :
                    \E r1 \in AnswersTo(user) : \E r2 \in AnswersAfter(r1) :
                      \E tr \in EventAnswersAfter(r2) :
                        deleteDocument(d, confirmed, user, r1, r2, tr)

\* every modal form, and the bulk update of the Applications page
Next ==
    \/ AddLead
    \/ EditLead
    \/ ConvertLead
    \/ CreateBatch
    \/ AddStudentToBatch
    \/ AddStudent
    \/ UpdateStatus
    \/ BulkStatusUpdate
    \/ TrackApplication
    \/ UploadDocuments

Spec == Init /\ [][Next]_vars

\* the Leads page
NextLeads ==
    \/ AddLead
    \/ EditLead
    \/ ConvertLead

SpecLeads == Init /\ [][NextLeads]_vars

\* the forms that create a row for the signed-in user's profile
NextCreate ==
    \/ AddLead
    \/ AddStudent
    \/ CreateBatch
    \/ AddStudentToBatch

SpecCreate == Init /\ [][NextCreate]_vars

\* the Classes page
NextClasses ==
    \/ CreateBatch
    \/ AddStudentToBatch

SpecClasses == Init /\ [][NextClasses]_vars

\* the details dialog open on a student of the Applications page, whose profile
\* was saved once before
InitDetails ==
    /\ Init!1
    /\ students = <<[status |-> "documents_pending", created_by |-> "p1",
                     by |-> "u1", lead |-> 0]>>
    /\ Init!3 /\ Init!4 /\ Init!5 /\ Init!6 /\ Init!7 /\ Init!8 /\ Init!9
    /\ timeline = <<[student_id |-> 1, event_type |-> "student_updated"]>>
    /\ Init!11 /\ Init!12 /\ Init!13 /\ Init!14

NextDetails ==
    \/ UpdateStudent
    \/ AddUniversity
    \/ UpdateUniversity
    \/ DeleteUniversity
    \/ DocumentUpload
    \/ DownloadDocument
    \/ DeleteDocument

SpecDetails == InitDetails /\ [][NextDetails]_vars

\* the documents of a student: the upload form of the Applications page and the
\* documents tab of the dialog
NextUpload ==
    \/ UploadDocuments
    \/ DocumentUpload
    \/ DownloadDocument
    \/ DeleteDocument

SpecUpload == InitDetails /\ [][NextUpload]_vars

\* the status of a student and of the student's universities: the Applications page
\* and the dialog
NextStatus ==
    \/ AddStudent
    \/ UpdateStatus
    \/ BulkStatusUpdate
    \/ UpdateStudent
    \/ TrackApplication
    \/ AddUniversity
    \/ UpdateUniversity
    \/ DeleteUniversity

SpecStatus == InitDetails /\ [][NextStatus]_vars

----------------------------------------------------------------------------
(* The Applications page: its list of students and updateStudentOptimistic *)

MaxPending == 2    \* requests of the page that may be in flight

\* updates: Partial<Student>, here a status
OptimisticInputs == [status : {"documents_submitted", "completed"}]

\* the rows a select("*") returns
ServerData == [i \in DOMAIN students |-> students[i].status]

Request(kind, user, id, status) ==
    [kind |-> kind, user |-> user, id |-> id, status |-> status,
     answer |-> "none", data |-> << >>]

Without(q, i) == [j \in 1 .. (Len(q) - 1) |-> IF j < i THEN q[j] ELSE q[j + 1]]

\* the call, up to its await: setStudents(prev => prev.map(...)), then the
\* update request is sent
updateStudentOptimistic(studentId, updates, user) ==
    /\ studentId \in DOMAIN localStudents
    /\ Len(pending) < MaxPending
    /\ localStudents' = [i \in DOMAIN localStudents |->
                            IF i = studentId THEN updates.status ELSE localStudents[i]]
    /\ pending' = Append(pending, Request("update", user, studentId, updates.status))
    /\ last' = Replacing(Given(Outcome("updateStudentOptimistic", TRUE, TRUE, << >>,
                                       <<Write("application_students", "update",
                                               updates.status, "")>>),
                               studentId),
                         {localStudents[studentId]})
    /\ UNCHANGED <<leads, students, universities, uniCount, documents, docCount, storage,
                   batches, batchStudents, timeline, now>>

\* the service answers the update request i
ServeUpdate(i, r) ==
    /\ i \in DOMAIN pending
    /\ pending[i].kind = "update" /\ pending[i].answer = "none"
    /\ pending' = [pending EXCEPT ![i].answer = IF Accepted(pending[i].user, r)
                                                THEN "ok" ELSE "error"]
    /\ students' = IF Accepted(pending[i].user, r) /\ pending[i].id \in DOMAIN students
                   THEN [students EXCEPT ![pending[i].id].status = pending[i].status]
                   ELSE students
    /\ UNCHANGED <<leads, universities, uniCount, documents, docCount, storage,
                   batches, batchStudents, timeline, now, localStudents, last>>

\* the call, after its await: the success toast, or fetchStudents() is started
\* (its select is sent) and handleError shows the error
updateStudentOptimistic_answered(i) ==
    /\ i \in DOMAIN pending
    /\ pending[i].kind = "update" /\ pending[i].answer # "none"
    /\ IF pending[i].answer = "ok"
       THEN /\ pending' = Without(pending, i)
            /\ last' = Given(Outcome("updateStudentOptimistic", TRUE, TRUE,
                                     <<Success>>, NoWrites), pending[i].id)
       ELSE /\ pending' = [pending EXCEPT
                              ![i] = Request("fetch", pending[i].user, pending[i].id,
                                             pending[i].status)]
            /\ last' = Given(Outcome("updateStudentOptimistic", TRUE, FALSE,
                                     <<Destructive>>, NoWrites), pending[i].id)
    /\ UNCHANGED <<leads, students, universities, uniCount, documents, docCount, storage,
                   batches, batchStudents, timeline, now, localStudents>>

\* the service answers the select of request i
ServeFetch(i, r) ==
    /\ i \in DOMAIN pending
    /\ pending[i].kind = "fetch" /\ pending[i].answer = "none"
    /\ pending' = [pending EXCEPT
                      ![i].answer = IF Accepted(pending[i].user, r) THEN "ok" ELSE "error",
                      ![i].data = IF Accepted(pending[i].user, r) THEN ServerData
                                  ELSE << >>]
    /\ UNCHANGED <<leads, students, universities, uniCount, documents, docCount, storage,
                   batches, batchStudents, timeline, now, localStudents, last>>

\* fetchStudents, after its await: setStudents(data || []), or setError and
\* handleError, which leave the list as it is
fetchStudents_answered(i) ==
    /\ i \in DOMAIN pending
    /\ pending[i].kind = "fetch" /\ pending[i].answer # "none"
    /\ pending' = Without(pending, i)
    /\ IF pending[i].answer = "ok"
       THEN /\ localStudents' = pending[i].data
            /\ last' = Given(Outcome("fetchStudents", TRUE, TRUE, << >>, NoWrites),
                             pending[i].id)
       ELSE /\ UNCHANGED localStudents
            /\ last' = Given(Outcome("fetchStudents", TRUE, FALSE, <<Destructive>>,
                                     NoWrites), pending[i].id)
    /\ UNCHANGED <<leads, students, universities, uniCount, documents, docCount, storage,
                   batches, batchStudents, timeline, now>>

\* the page after its first fetchStudents(), with two students on the list
InitOptimistic ==
    /\ Init!1
    /\ students = <<[status |-> "documents_pending", created_by |-> "p1",
                     by |-> "u1", lead |-> 0],
                    [status |-> "documents_pending", created_by |-> "p1",
                     by |-> "u1", lead |-> 0]>>
    /\ Init!3 /\ Init!4 /\ Init!5 /\ Init!6 /\ Init!7 /\ Init!8 /\ Init!9
    /\ Init!10 /\ Init!11
    /\ localStudents = ServerData
    /\ pending = << >>
    /\ Init!14

UpdateOptimistic == \E studentId \in DOMAIN localStudents, updates \in OptimisticInputs,
                       user \in Editors :
                      updateStudentOptimistic(studentId, updates, user)

UpdateServed == \E i \in DOMAIN pending : \E r \in Responses : ServeUpdate(i, r)

UpdateAnswered == \E i \in DOMAIN pending : updateStudentOptimistic_answered(i)

FetchServed == \E i \in DOMAIN pending : \E r \in Responses : ServeFetch(i, r)

FetchAnswered == \E i \in DOMAIN pending : fetchStudents_answered(i)

NextOptimistic ==
    \/ UpdateOptimistic
    \/ UpdateServed
    \/ UpdateAnswered
    \/ FetchServed
    \/ FetchAnswered

SpecOptimistic == InitOptimistic /\ [][NextOptimistic]_vars

-----------------------------------------------------------------------------
(* Row level security of the tables *)

Tables == {"profiles", "leads", "follow_ups", "language_batches", "batch_students",
           "application_students", "universities", "documents"}
Commands == {"SELECT", "INSERT", "UPDATE", "DELETE"}

\* CREATE POLICY ... ON public.<table> FOR <cmd> [TO <role>] USING / WITH CHECK (<expr>);
\* without TO the policy is for every role, and an UPDATE or ALL policy without
\* WITH CHECK checks the new row with its USING expression
Policy(table, cmd, to, expr) == [table |-> table, cmd |-> cmd, to |-> to, expr |-> expr]

Policies ==
    { Policy("profiles", "SELECT", "public", "auth.uid() = user_id"),
      Policy("profiles", "UPDATE", "public", "auth.uid() = user_id"),
      Policy("profiles", "INSERT", "public", "auth.uid() = user_id"),
      Policy("leads", "SELECT", "authenticated", "true"),
      Policy("leads", "INSERT", "authenticated", "true"),
      Policy("leads", "UPDATE", "authenticated", "true"),
      Policy("leads", "DELETE", "authenticated", "true"),
      Policy("follow_ups", "ALL", "authenticated", "true"),
      Policy("language_batches", "ALL", "authenticated", "true"),
      Policy("batch_students", "ALL", "authenticated", "true"),
      Policy("application_students", "ALL", "authenticated", "true"),
      Policy("universities", "ALL", "authenticated", "true"),
      Policy("documents", "ALL", "authenticated", "true") }

\* the role of a client: anon until it signs in
RoleOf(client) == IF client = NoUser THEN "anon" ELSE "authenticated"

\* the expression of a policy, on a row, for a client; auth.uid() is NULL for anon
\* and NULL = user_id is not true
Holds_anyRow(expr, client, row) == TRUE

Holds(expr, client, row) ==
    IF expr = "true" THEN TRUE ELSE client # NoUser /\ client = row.user_id

\* row level security is enabled on every table: a command on a row is let
\* through when some policy of the table, for the command and the role, holds
Permits(table, cmd, client, row) ==
    \E p \in Policies :
        /\ p.table = table
        /\ p.cmd \in {cmd, "ALL"}
        /\ p.to \in {"public", RoleOf(client)}
        /\ Holds(p.expr, client, row)

\* a row, as far as the policies look at it: user_id is the user it belongs to
\* (of a profile) or whose profile created it (of the other tables)
RowsOf(table) == [user_id : Users]

\* a client sends a command on a row of a table; the service answers by the policies
Receive(table, cmd, client, row) ==
    /\ last' = [op |-> "request", table |-> table, cmd |-> cmd, client |-> client,
                row |-> row, granted |-> Permits(table, cmd, client, row)]
    /\ UNCHANGED <<leads, students, universities, uniCount, documents, docCount,
                   storage, batches, batchStudents, timeline, now, localStudents,
                   pending>>

NextAccess ==
    \E table \in Tables, cmd \in Commands, client \in Clients :
        \E row \in RowsOf(table) : Receive(table, cmd, client, row)

SpecAccess == Init /\ [][NextAccess]_vars

----------------------------------------------------------------------------
(* Properties *)

\* C1, as claimed: across every submission of AddLeadForm, EditLeadForm and
\* ConvertLeadForm a lead's status only moves forward along
\* new -> in_progress -> converted.
C1_LeadStatusOneWay ==
    [][\A l \in DOMAIN leads :
          LeadRank(leads'[l].status) >= LeadRank(leads[l].status)]_vars

\* C1, amended: AddLeadForm creates a lead with status new and changes no other
\* lead; ConvertLeadForm changes a lead's status only to converted; only
\* EditLeadForm moves a lead back to an earlier status, and it sets whichever of
\* the three statuses it was given.
C1_LeadStatusMoves ==
    [][/\ \A l \in DOMAIN leads :
            /\ l \in DOMAIN leads'
            /\ LeadRank(leads'[l].status) < LeadRank(leads[l].status)
                  => last'.op = "EditLeadForm"
            /\ last'.op = "ConvertLeadForm"
                  => leads'[l].status \in {leads[l].status, "converted"}
            /\ last'.op = "AddLeadForm" => leads'[l] = leads[l]
            /\ last'.op = "EditLeadForm" /\ leads'[l] # leads[l]
                  => leads'[l].status = last'.input /\ last'.input \in LeadStatus
       /\ \A l \in DOMAIN leads' \ DOMAIN leads :
            last'.op = "AddLeadForm" /\ leads'[l].status = "new"]_vars

\* a converted lead that EditLeadForm has set back to new
C1_LeadMovedBack ==
    /\ last.op = "EditLeadForm" /\ last.ok
    /\ last.before = {"converted"} /\ last.input = "new"
    /\ \E l \in DOMAIN leads :
         leads[l].status = "new" /\ \E s \in DOMAIN students : students[s].lead = l

\* C2: the ordering of the application statuses is advisory: whatever status a
\* student has, UpdateStatusForm, the student edit form and the bulk update
\* accept each of the six statuses, and the accepted write sets it.
C2_AnyStatusToAny ==
    \A s \in DOMAIN students, t \in ApplicationStatus :
        /\ ENABLED (/\ UpdateStatusForm_onSubmit(s, [status |-> t], "u1", "ok")
                    /\ last'.valid /\ students'[s].status = t)
        /\ ENABLED (/\ handleBulkStatusUpdate({s}, t, "u1", "ok")
                    /\ last'.toasts = <<Success>> /\ students'[s].status = t)
        /\ Len(timeline) < MaxEvents
             => ENABLED (/\ updateStudent(s, [full_name |-> "Al", status |-> t],
                                          "u1", "ok", "ok")
                         /\ last'.valid /\ students'[s].status = t)

\* UpdateStatusForm has moved a student from completed back to documents_pending
C2_StatusMovedBack ==
    /\ last.op = "UpdateStatusForm" /\ last.ok
    /\ last.before = {"completed"} /\ last.input = "documents_pending"
    /\ \E s \in DOMAIN students : students[s].status = "documents_pending"

StatusForms == {"UpdateStatusForm", "ConvertLeadForm"}

\* C3: every application student's status is one of the six statuses and every
\* lead's status one of the three; a form given a status outside its enum is
\* rejected by the resolver and sends no write.
C3_StatusInEnum ==
    /\ \A s \in DOMAIN students : students[s].status \in ApplicationStatus
    /\ \A l \in DOMAIN leads : leads[l].status \in LeadStatus
    /\ last.op \in StatusForms /\ last.input \notin ApplicationStatus
          => ~last.valid /\ last.sent = NoWrites
    /\ last.op = "EditLeadForm" /\ last.input \notin LeadStatus
          => ~last.valid /\ last.sent = NoWrites
    /\ \A i \in DOMAIN last.sent :
          /\ last.sent[i].table = "application_students"
                => last.sent[i].status \in ApplicationStatus \cup {""}
          /\ last.sent[i].table = "leads" => last.sent[i].status \in LeadStatus \cup {""}

\* UpdateStatusForm was given a status outside the enum, for a student there is
C3_StatusRejected ==
    /\ last.op = "UpdateStatusForm" /\ last.input = "rejected"
    /\ ~last.valid
    /\ students # << >>

UniversityOps == {"TrackApplicationForm", "addUniversity", "updateUniversity",
                  "deleteUniversity"}

StudentStatusOps == {"UpdateStatusForm", "updateStudent", "handleBulkStatusUpdate"}

\* C4: adding, updating or deleting a university leaves every student as it
\* is, and changing a student's status leaves every university as it is.
C4_UniversityStatusIndependent ==
    [][/\ last'.op \in UniversityOps => students' = students
       /\ last'.op \in StudentStatusOps => universities' = universities]_vars

\* updateUniversity has set a university to accepted, the student still at
\* documents_pending
C4_UniversityAccepted ==
    /\ last.op = "updateUniversity" /\ last.event # "none"
    /\ \E u \in universities :
         u.status = "accepted" /\ students[u.student_id].status = "documents_pending"

IsPrefix(a, b) == Len(a) <= Len(b) /\ \A i \in DOMAIN a : b[i] = a[i]

\* C5, as claimed: no operation changes or removes a timeline event, and each
\* operation adds at most one event.
C5_TimelineAppendsOne ==
    [][IsPrefix(timeline, timeline') /\ Len(timeline') <= Len(timeline) + 1]_vars

\* C5, amended: no operation changes or removes a timeline event; each
\* operation adds at most one event, except handleDocumentUpload, which adds at
\* most one event for each file it was given.
C5_TimelineAppendOnly ==
    [][/\ IsPrefix(timeline, timeline')
       /\ last'.op # "handleDocumentUpload" => Len(timeline') <= Len(timeline) + 1
       /\ last'.op = "handleDocumentUpload"
            => Len(timeline') <= Len(timeline) + last'.files]_vars

\* handleDocumentUpload has recorded two events after the one there was
C5_TwoEventsRecorded ==
    /\ last.op = "handleDocumentUpload" /\ last.files = 2
    /\ Len(timeline) = 3
    /\ timeline[1].event_type = "student_updated"
    /\ timeline[2].event_type = "document_uploaded"
    /\ timeline[3].event_type = "document_uploaded"

RecordingOps == {"updateStudent", "addUniversity", "updateUniversity",
                 "deleteUniversity", "deleteDocument"}

\* C6: when the timeline insert of updateStudent, addUniversity,
\* updateUniversity, deleteUniversity or deleteDocument fails, with an error
\* result or an exception, the operation still shows its success toast and
\* reloads the data, and the timeline stays as it was.
C6_TimelineBestEffort ==
    /\ [](last.op \in RecordingOps /\ last.event \in {"error", "throw"}
            => last.toasts = <<Success>> /\ last.reload)
    /\ [][last'.op \in RecordingOps /\ last'.event \in {"error", "throw"}
            => timeline' = timeline]_vars

\* deleteDocument has deleted the document although its timeline insert threw
C6_DeletedWithoutEvent ==
    /\ last.op = "deleteDocument" /\ last.event = "throw"
    /\ last.sent # NoWrites
    /\ documents = {} /\ docCount > 0

\* C7, as claimed: every lead, batch, batch student, application student and
\* document created through the application carries the profile id of the
\* signed-in user who created it.
C7_CreatorIsProfile ==
    /\ \A i \in DOMAIN leads : leads[i].created_by = ProfileId(leads[i].by)
    /\ \A i \in DOMAIN batches : batches[i].created_by = ProfileId(batches[i].by)
    /\ \A i \in DOMAIN batchStudents :
         batchStudents[i].created_by = ProfileId(batchStudents[i].by)
    /\ \A i \in DOMAIN students : students[i].created_by = ProfileId(students[i].by)
    /\ \A d \in documents : d.uploaded_by = ProfileId(d.by)

\* C8, as claimed: updateStudentOptimistic applies the update to the matching
\* student of the local list before the server answers and leaves the others
\* as they are; when the server update fails, the refetch it starts leaves,
\* once it has completed, the local list equal to the server's data.
C8_OptimisticRevert ==
    /\ [][last'.op = "updateStudentOptimistic" /\ last'.sent # NoWrites
            => localStudents' = [localStudents EXCEPT
                                   ![last'.input] = last'.sent[1].status]]_vars
    /\ [](last.op = "fetchStudents" /\ pending = << >> => localStudents = ServerData)

ModalForms == {"AddLeadForm", "AddStudentForm", "CreateBatchForm",
               "AddStudentToBatchForm", "EditLeadForm", "ConvertLeadForm",
               "UpdateStatusForm", "TrackApplicationForm", "UploadDocumentsForm"}

EndDateError == [path |-> "end_date", message |-> "End date must be after start date"]

Complete(data) ==
    /\ data.name # ""
    /\ data.class_type \notin {"", Undefined}
    /\ data.start_date # 0
    /\ data.end_date # 0

BatchesInOrder ==
    \A b \in DOMAIN batches :
      Complete(batches[b]) /\ batches[b].end_date > batches[b].start_date

\* C10, as claimed: CreateBatchForm inserts only when the four fields are
\* non-empty and the end date is strictly after the start date; otherwise
\* nothing is inserted and 'End date must be after start date' is reported on
\* end_date; every batch has end_date > start_date.
C10_BatchDatesOrError ==
    /\ BatchesInOrder
    /\ last.op = "CreateBatchForm"
         /\ ~(Complete(last.input) /\ last.input.end_date > last.input.start_date)
         => /\ ~last.valid /\ last.sent = NoWrites
            /\ EndDateError \in last.errors

\* C10, amended: CreateBatchForm inserts only when the four fields are
\* non-empty and the end date is strictly after the start date; otherwise
\* nothing is inserted; when the four fields are non-empty and the end date is
\* not strictly after the start date, 'End date must be after start date' is
\* reported on end_date; every batch has end_date > start_date.
C10_BatchDatesInOrder ==
    /\ BatchesInOrder
    /\ last.op = "CreateBatchForm"
         /\ ~(Complete(last.input) /\ last.input.end_date > last.input.start_date)
         => ~last.valid /\ last.sent = NoWrites
    /\ last.op = "CreateBatchForm" /\ Complete(last.input)
         /\ last.input.end_date <= last.input.start_date
         => last.errors = {EndDateError}

\* a batch there is, and a submission with the end date on the start date
C10_SameDayRejected ==
    /\ last.op = "CreateBatchForm" /\ Complete(last.input)
    /\ last.input.end_date = last.input.start_date
    /\ last.errors = {EndDateError}
    /\ batches # << >>

ProfileForms == {"AddLeadForm", "AddStudentForm", "CreateBatchForm",
                 "AddStudentToBatchForm"}

\* C11: when no user is signed in, or the signed-in user has no profile row, a
\* validated submission of AddLeadForm, AddStudentForm, CreateBatchForm or
\* AddStudentToBatchForm sends no insert, leaves every table as it is and
\* shows one destructive toast, with 'You must be logged in ...' or 'Profile
\* not found'.
C11_NothingWithoutProfile ==
    [][last'.op \in ProfileForms /\ last'.client \in {"nouser", "noprofile"}
         => /\ <<leads, students, batches, batchStudents>>
                 = <<leads, students, batches, batchStudents>>'
            /\ last'.sent = NoWrites
            /\ last'.toasts = <<Destructive>>
            /\ last'.message = IF last'.client = "nouser" THEN "You must be logged in"
                               ELSE "Profile not found"]_vars

\* AddStudentToBatchForm was refused for a user without a profile row, a batch
\* being there
C11_NoProfileRefused ==
    /\ last.op = "AddStudentToBatchForm" /\ last.client = "noprofile"
    /\ last.message = "Profile not found"
    /\ batches # << >> /\ batchStudents = << >>

SharedTables == Tables \ {"profiles"}

\* C12: a client that is not signed in is let through to no row of leads,
\* follow_ups, language_batches, batch_students, application_students,
\* universities or documents, whatever the command; a signed-in user is let
\* through to every row of them, whoever created it; on profiles a user is let
\* through exactly to select, insert and update the row whose user_id is theirs.
C12_RowLevelAccess ==
    last.op = "request" =>
        /\ last.table \in SharedTables => (last.granted <=> last.client # NoUser)
        /\ last.table = "profiles" =>
              (last.granted <=> /\ last.client # NoUser
                                /\ last.row.user_id = last.client
                                /\ last.cmd \in {"SELECT", "INSERT", "UPDATE"})

\* u1 was let through to update a lead that u2 created, and was refused u2's profile
C12_OthersLeadUpdated ==
    /\ last.op = "request" /\ last.table = "leads" /\ last.cmd = "UPDATE"
    /\ last.client = "u1" /\ last.row.user_id = "u2" /\ last.granted
    /\ ~Permits("profiles", "SELECT", "u1", last.row)
    /\ ~Permits("documents", "SELECT", NoUser, last.row)

\* the toasts of the last handler run include the success toast
Shown(toasts, t) == \E i \in DOMAIN toasts : toasts[i] = t

\* C13: a call of handleDocumentUpload with N files shows the success toast
\* '<N> document(s) uploaded successfully!' only when each of the N files was
\* stored in the bucket and recorded in documents by the call.
C13_SuccessOnlyWhenAllUploaded ==
    [][last'.op = "handleDocumentUpload" /\ Shown(last'.toasts, Success)
         => /\ docCount' - docCount = last'.files
            /\ Cardinality(storage' \ storage) = last'.files]_vars

\* the requests of the last handler run include a write to the table
SentTo(sent, table) == \E i \in DOMAIN sent : sent[i].table = table

\* C14: a submission of ConvertLeadForm changes a lead only by setting the
\* status of its lead to converted, after its own application_students insert
\* was sent and a student of that lead was added; when the insert fails no
\* leads update is sent and the leads are as they were.
C14_ConvertAfterInsert ==
    [][last'.op = "ConvertLeadForm" =>
         /\ SentTo(last'.sent, "leads") =>
               /\ Len(last'.sent) = 2
               /\ last'.sent[1].table = "application_students"
               /\ last'.sent[1].kind = "insert"
               /\ last'.sent[2].kind = "update"
               /\ last'.sent[2].status = "converted"
               /\ Len(students') = Len(students) + 1
         /\ leads' # leads =>
               /\ SentTo(last'.sent, "leads")
               /\ \E l \in DOMAIN leads :
                     /\ leads' = [leads EXCEPT ![l].status = "converted"]
                     /\ students' = Append(students, students'[Len(students')])
                     /\ students'[Len(students')].lead = l
         /\ students' = students => ~SentTo(last'.sent, "leads") /\ leads' = leads]_vars

\* a lead was converted by a submission whose insert and update were accepted
C14_LeadConverted ==
    /\ last.op = "ConvertLeadForm" /\ last.ok /\ Len(last.sent) = 2
    /\ \E l \in DOMAIN leads, s \in DOMAIN students :
          leads[l].status = "converted" /\ students[s].lead = l

\* no lead has two students
OneStudentPerLead ==
    \A s, t \in DOMAIN students :
        students[s].lead # 0 /\ students[s].lead = students[t].lead => s = t

\* C15: a validated submission of ConvertLeadForm ends either with a student
\* added, the lead converted and the success toast, or with an error toast, no
\* student added and the leads as they were; and no lead ever has two students.
C15_ConvertAllOrNothing ==
    /\ [](OneStudentPerLead)
    /\ [][last'.op = "ConvertLeadForm" /\ last'.valid =>
            \/ /\ last'.toasts = <<Success>>
               /\ Len(students') = Len(students) + 1
               /\ \E l \in DOMAIN leads :
                     /\ students'[Len(students')].lead = l
                     /\ leads'[l].status = "converted"
            \/ /\ last'.toasts = <<Destructive>>
               /\ students' = students
               /\ leads' = leads]_vars

UploadOps == {"UploadDocumentsForm", "handleDocumentUpload"}

\* C16: in UploadDocumentsForm and handleDocumentUpload every documents row
\* added has as file_path the path of an object the same call stored, no two
\* rows added share one, and a documents insert is sent once for each object
\* stored: none when the storage upload failed.
C16_RowAfterStored ==
    [][last'.op \in UploadOps =>
         /\ \A d \in documents' \ documents :
               /\ d.file_path \in storage' \ storage
               /\ \A e \in documents' \ documents : e.file_path = d.file_path => e = d
         /\ Len(last'.sent) = Cardinality(storage' \ storage)
         /\ storage' = storage => documents' = documents]_vars

\* the form stored a file and recorded it under the path of the object
C16_FormRecordedStored ==
    /\ last.op = "UploadDocumentsForm" /\ last.ok
    /\ \E d \in documents : d.file_path \in storage /\ d.uploaded_by = "u1"

\* the storage removal of the last deleteDocument was refused: handleError, and
\* no delete sent
RemovalFailed(outcome) ==
    outcome.op = "deleteDocument" /\ outcome.toasts = <<Destructive>>
                                  /\ outcome.sent = NoWrites

\* deleteDocument deletes a row only with its object removed, and keeps the row
\* and the object when the storage removal fails
DeleteAfterRemoval ==
    [][last'.op = "deleteDocument" =>
         /\ RemovalFailed(last') => documents' = documents /\ storage' = storage
         /\ \A d \in documents \ documents' : d.file_path \notin storage']_vars

\* C17: deleteDocument deletes a row only with its object removed, keeps the
\* row and the object when the storage removal fails, and in the state it
\* reaches every documents row refers to an object of the bucket.
C17_DeleteKeepsRowsStored ==
    /\ DeleteAfterRemoval
    /\ [][last'.op = "deleteDocument" =>
            \A d \in documents' : d.file_path \in storage']_vars

\* C18: a call of handleDocumentUpload with several files names each of them
\* with a storage path of its own, and so stores an object for each file whose
\* requests the service accepts.
C18_DistinctPaths ==
    [][last'.op = "handleDocumentUpload" /\ last'.files >= 2 =>
         \A i, j \in DOMAIN last'.input :
             i # j => last'.input[i] # last'.input[j]]_vars

====
